---- MODULE Spec2Model ----
(***************************************************************************)
(* Model of utils/metrics.py: compute_metrics (HITS@k and MRR from two     *)
(* distance matrices and the test pairs) and log_path (the next run        *)
(* directory under logs/{dataset}_results).                                *)
(*                                                                         *)
(* Node and column indices are 0-based as in the code; TLA+ sequences are  *)
(* 1-based, so row i of the code is element i+1 of a matrix here.          *)
(* Fractions are exact: a record [num, den]; den = 0 stands for NaN (the   *)
(* mean of an empty array).                                                *)
(***************************************************************************)
EXTENDS Integers, Sequences, FiniteSets, TLC

\* ---- bounds of the explored inputs ----
MaxN == 2       \* number of test pairs: 1..MaxN
MaxRows == 2    \* rows of a distance matrix: 1..MaxRows
MaxCols == 2    \* columns of a distance matrix: 1..MaxCols
MaxDist == 1    \* distance values: 0..MaxDist
MaxK == 2       \* cutoffs k: 1..MaxK
MaxKs == 2      \* length of hit_top_ks: 1..MaxKs
MaxRun == 2     \* run directory names run_0..run_MaxRun

VARIABLES distances1, distances2, test_pairs, hit_top_ks,
          pc, ranks1, ranks2, hits_ltr, hits_rtl, hits,
          mrr_ltr, mrr_rtl, mrr,
          parent, entries, ret

mvars == <<distances1, distances2, test_pairs, hit_top_ks,
           pc, ranks1, ranks2, hits_ltr, hits_rtl, hits,
           mrr_ltr, mrr_rtl, mrr>>
lvars == <<parent, entries, ret>>
vars == <<mvars, lvars>>

\* ---- helpers ----
Min2(a, b) == IF a <= b THEN a ELSE b
Max2(a, b) == IF a >= b THEN a ELSE b
Range(s) == {s[i] : i \in 1..Len(s)}
Rows(m) == Len(m)
Cols(m) == Len(m[1])

Matrices(rs, cs, vals) ==
  UNION {UNION {[1..r -> [1..c -> vals]] : c \in cs} : r \in rs}

\* argsort reads only the order of the values of a row, so the explored rows
\* are taken up to translation: the least distance of every row is 0
ZeroBased(m) == \A i \in 1..Len(m) : \E j \in 1..Len(m[i]) : m[i][j] = 0

SeqsUpTo(S, n) == UNION {[1..l -> S] : l \in 1..n}

RECURSIVE Fact(_)
Fact(n) == IF n <= 1 THEN 1 ELSE n * Fact(n - 1)

\* ---- fractions (numpy float64 values, kept exact) ----
Frac(n, d) == [num |-> n, den |-> d]
NaN == Frac(0, 0)
IsNaN(a) == a.den = 0
\* a > b as Python compares floats: FALSE when either side is NaN
FracGt(a, b) == ~IsNaN(a) /\ ~IsNaN(b) /\ a.num * b.den > b.num * a.den
FracEq(a, b) == ~IsNaN(a) /\ ~IsNaN(b) /\ a.num * b.den = b.num * a.den
FracLeq(a, b) == ~IsNaN(a) /\ ~IsNaN(b) /\ a.num * b.den <= b.num * a.den

\* Python's builtin max(a, b): b if b > a else a
PyMin(a, b) == IF FracGt(a, b) THEN b ELSE a
PyMax(a, b) == IF FracGt(b, a) THEN b ELSE a

\* ---- torch.argsort(dim=1): not stable, any ascending order of each row ----
Perms(c) == {p \in [1..c -> 0..(c - 1)] : \A i, j \in 1..c : i # j => p[i] # p[j]}
SortsRow(p, row) ==
  \A j \in 1..(Len(row) - 1) : row[p[j] + 1] <= row[p[j + 1] + 1]
Argsort(d) ==
  {r \in [1..Rows(d) -> Perms(Cols(d))] : \A i \in 1..Rows(d) : SortsRow(r[i], d[i])}

\* ---- numpy broadcasting of an (R, w) array against an (N, 1) array ----
Broadcastable(R, N) == R = N \/ R = 1 \/ N = 1
BRows(R, N) == Max2(R, N)
\* element (i, j) of ranks == np.expand_dims(truth, -1)
RowIdx(R, i) == IF R = 1 THEN 1 ELSE i
Eq(ranks, truth, i, j) ==
  ranks[RowIdx(Rows(ranks), i)][j] = truth[RowIdx(Len(truth), i)]

TruthSrc(tp) == [i \in 1..Len(tp) |-> tp[i][1]]
Truth1(tp) == [i \in 1..Len(tp) |-> tp[i][2]]   \* test_pairs[:, 1]
Truth2(tp) == [i \in 1..Len(tp) |-> tp[i][1]]   \* test_pairs[:, 0]

\* np.sum(signal[:, :k]) where signal = ranks[:, :K] == truth[:, None]
HitCountAtK(ranks, truth, K, k) ==
  Cardinality({ij \in (1..BRows(Rows(ranks), Len(truth))) \X {k} :
                 k <= Min2(K, Cols(ranks)) /\ Eq(ranks, truth, ij[1], ij[2])})
HitCount(ranks, truth, K, k) ==
  Cardinality({ij \in (1..BRows(Rows(ranks), Len(truth)))
                        \X (1..Min2(k, Min2(K, Cols(ranks)))) :
                 Eq(ranks, truth, ij[1], ij[2])})

\* np.where(ranks == truth[:, None])[1]: the 0-based columns of the matches;
\* MatchesAt is the number of matches in 1-based column j
MatchesAt(ranks, truth, j) ==
  Cardinality({i \in 1..BRows(Rows(ranks), Len(truth)) : Eq(ranks, truth, i, j)})

RECURSIVE RecipSumOff(_, _, _, _)
RecipSumOff(ranks, truth, L, j) ==
  IF j = 0 THEN 0
  ELSE (L \div (j + 1)) * MatchesAt(ranks, truth, j) + RecipSumOff(ranks, truth, L, j - 1)

RECURSIVE RecipSum(_, _, _, _)
RecipSum(ranks, truth, L, j) ==
  IF j = 0 THEN 0
  ELSE (L \div j) * MatchesAt(ranks, truth, j) + RecipSum(ranks, truth, L, j - 1)

RECURSIVE MatchCount(_, _, _)
MatchCount(ranks, truth, j) ==
  IF j = 0 THEN 0 ELSE MatchesAt(ranks, truth, j) + MatchCount(ranks, truth, j - 1)

\* np.mean(1 / (positions + 1)); NaN when there is no match
RecipTotal(ranks, truth) ==
  Frac(RecipSum(ranks, truth, Fact(Cols(ranks)), Cols(ranks)), Fact(Cols(ranks)))
MeanRecip(ranks, truth) ==
  Frac(RecipSum(ranks, truth, Fact(Cols(ranks)), Cols(ranks)),
       Fact(Cols(ranks)) * MatchCount(ranks, truth, Cols(ranks)))

\* ---- compute_metrics ----
None == <<>>

ComputeMetrics ==
  /\ pc = "call"
  /\ \E r1 \in Argsort(distances1), r2 \in Argsort(distances2) :
       LET N == Len(test_pairs)
           K == hit_top_ks[Len(hit_top_ks)]
           ks == Range(hit_top_ks)
           ltr == [k \in ks |-> Frac(HitCount(r1, Truth1(test_pairs), K, k), N)]
           rtl == [k \in ks |-> Frac(HitCount(r2, Truth2(test_pairs), K, k), N)]
           m1 == MeanRecip(r1, Truth1(test_pairs))
           m2 == MeanRecip(r2, Truth2(test_pairs))
       IN IF Broadcastable(Rows(r1), N) /\ Broadcastable(Rows(r2), N)
          THEN /\ pc' = "returned"
               /\ ranks1' = r1
               /\ ranks2' = r2
               /\ hits_ltr' = ltr
               /\ hits_rtl' = rtl
               /\ hits' = [k \in ks |-> PyMax(hits_ltr'[k], hits_rtl'[k])]
               /\ mrr_ltr' = m1
               /\ mrr_rtl' = m2
               /\ mrr' = PyMax(mrr_ltr', mrr_rtl')
          ELSE /\ pc' = "raised"
               /\ UNCHANGED <<ranks1, ranks2, hits_ltr, hits_rtl, hits,
                              mrr_ltr, mrr_rtl, mrr>>
  /\ UNCHANGED <<distances1, distances2, test_pairs, hit_top_ks>>
  /\ UNCHANGED lvars

\* ---- log_path ----
Names == {<<"run", n>> : n \in 0..MaxRun} \cup {<<"other", 0>>}
NoPath == <<"none", 0>>
NumDirs == Cardinality({n \in Names : entries[n] = "dir"})

LogPath ==
  /\ parent' = TRUE
  /\ ret' = <<"run", NumDirs>>
  /\ UNCHANGED entries
  /\ UNCHANGED mvars

\* the surrounding filesystem activity on logs/{dataset}_results
MkDir ==
  \E n \in Names :
    /\ entries[n] = "absent"
    /\ entries' = [entries EXCEPT ![n] = "dir"]
    /\ parent' = TRUE
    /\ ret' = NoPath
    /\ UNCHANGED mvars

RmDir ==
  \E n \in Names :
    /\ entries[n] = "dir"
    /\ entries' = [entries EXCEPT ![n] = "absent"]
    /\ ret' = NoPath
    /\ UNCHANGED <<parent, mvars>>

Touch ==
  \E n \in Names :
    /\ parent
    /\ entries[n] = "absent"
    /\ entries' = [entries EXCEPT ![n] = "file"]
    /\ ret' = NoPath
    /\ UNCHANGED <<parent, mvars>>

Unlink ==
  \E n \in Names :
    /\ entries[n] = "file"
    /\ entries' = [entries EXCEPT ![n] = "absent"]
    /\ ret' = NoPath
    /\ UNCHANGED <<parent, mvars>>

\* ---- specifications ----
Idle ==
  /\ pc = "call"
  /\ ranks1 = None /\ ranks2 = None
  /\ hits_ltr = None /\ hits_rtl = None /\ hits = None
  /\ mrr_ltr = NaN /\ mrr_rtl = NaN /\ mrr = NaN

NoLog ==
  /\ parent = FALSE
  /\ entries = [n \in Names |-> "absent"]
  /\ ret = NoPath

Init ==
  /\ distances1 \in {m \in Matrices(1..MaxRows, 1..MaxCols, 0..MaxDist) : ZeroBased(m)}
  /\ distances2 \in {m \in Matrices(1..MaxRows, 1..MaxCols, 0..MaxDist) : ZeroBased(m)}
  /\ test_pairs \in SeqsUpTo((0..MaxCols) \X (0..MaxCols), MaxN)
  /\ hit_top_ks \in SeqsUpTo(1..MaxK, MaxKs)
  /\ Idle
  /\ NoLog

Next == ComputeMetrics

Spec == Init /\ [][Next]_vars

\* the concrete scenario of the specification, with every backward matrix
\* of the scenario's width and value range
ScenarioFwd == <<(<<0, 1, 2>>), (<<2, 1, 0>>)>>
ScenarioBwd == <<(<<0, 2>>), (<<1, 1>>), (<<2, 0>>)>>
ScenarioPairs == <<(<<0, 0>>), (<<1, 1>>)>>
ScenarioKs == <<1, 2>>

ScenarioInit ==
  /\ distances1 = ScenarioFwd
  /\ distances2 \in Matrices(1..Rows(ScenarioBwd), {Cols(ScenarioBwd)},
                             UNION {Range(ScenarioBwd[i]) : i \in 1..Rows(ScenarioBwd)})
  /\ test_pairs = ScenarioPairs
  /\ hit_top_ks = ScenarioKs
  /\ Idle
  /\ NoLog

ScenarioSpec == ScenarioInit /\ [][Next]_vars

LogInit ==
  /\ distances1 = None /\ distances2 = None
  /\ test_pairs = None /\ hit_top_ks = None
  /\ Idle
  /\ NoLog

LogNext == LogPath \/ MkDir \/ RmDir \/ Touch \/ Unlink

LogSpec == LogInit /\ [][LogNext]_vars

\* ---- properties ----
N == Len(test_pairs)
Ks == Range(hit_top_ks)
KMax == hit_top_ks[Len(hit_top_ks)]
Src(i) == test_pairs[i][1]
Tgt(i) == test_pairs[i][2]
One == Frac(1, 1)
Zero == Frac(0, 1)
Returned == pc = "returned"
\* every true counterpart is a column of the matrix it is looked up in
ValidCols ==
  \A i \in 1..N : Tgt(i) < Cols(distances1) /\ Src(i) < Cols(distances2)
\* every node index is also a row of the matrix of its own graph
ValidNodes ==
  /\ ValidCols
  /\ \A i \in 1..N : Src(i) < Rows(distances1) /\ Tgt(i) < Rows(distances2)
\* one row per test pair in both matrices
RowPerPair == Rows(distances1) = N /\ Rows(distances2) = N
Ascending(s) == \A i, j \in 1..Len(s) : i < j => s[i] < s[j]
\* no node occurs in two test pairs
OneToOne ==
  \A i, j \in 1..N : i # j => Src(i) # Src(j) /\ Tgt(i) # Tgt(j)
FirstK(row, k) == {row[j] : j \in 1..Min2(k, Len(row))}

FwdByNode(k) == Cardinality({i \in 1..N : Tgt(i) \in FirstK(ranks1[Src(i) + 1], k)})
BwdByNode(k) == Cardinality({i \in 1..N : Src(i) \in FirstK(ranks2[Tgt(i) + 1], k)})
FwdByPosition(k) == Cardinality({i \in 1..N : Tgt(i) \in FirstK(ranks1[i], k)})
BwdByPosition(k) == Cardinality({i \in 1..N : Src(i) \in FirstK(ranks2[i], k)})

\* C1 as stated: with valid, pairwise distinct node indices, ascending
\* cutoffs and one row per pair, the forward
\* hits at k count the pairs whose target is among the first k entries of
\* the rank row of the pair's SOURCE NODE, and the backward hits those whose
\* source is among the first k entries of the rank row of the TARGET NODE.
C1_HitByNodeRow ==
  (Returned /\ RowPerPair /\ ValidNodes /\ OneToOne /\ Ascending(hit_top_ks)) =>
    \A k \in Ks : /\ hits_ltr[k] = Frac(FwdByNode(k), N)
                  /\ hits_rtl[k] = Frac(BwdByNode(k), N)

\* C1 amended: with one row per pair, the hits at k count the pairs whose
\* counterpart is among the first min(k, hit_top_ks[-1]) entries of the rank
\* row at the pair's POSITION i, whatever node indices the pair holds.
C1_HitByPositionRow ==
  (Returned /\ RowPerPair) =>
    \A k \in Ks : /\ hits_ltr[k] = Frac(FwdByPosition(Min2(k, KMax)), N)
                  /\ hits_rtl[k] = Frac(BwdByPosition(Min2(k, KMax)), N)

C1_Witness ==
  /\ Returned /\ RowPerPair /\ ValidNodes /\ OneToOne /\ Ascending(hit_top_ks)
  /\ \E i \in 1..N : Src(i) # i - 1 /\ Tgt(i) # i - 1
  /\ \E k \in Ks : /\ FwdByNode(k) # FwdByPosition(k)
                   /\ hits_ltr[k] = Frac(FwdByPosition(k), N)

\* C2 as stated: whenever compute_metrics returns, every hits[k] is in [0,1].
C2_HitsInUnitInterval ==
  Returned => \A k \in Ks : 0 <= hits[k].num /\ hits[k].num <= hits[k].den

\* C3: whenever compute_metrics returns, each direction's fraction and the
\* reported hits are non-decreasing in k.
C3_HitsMonotone ==
  Returned =>
    \A k1, k2 \in Ks : k1 < k2 =>
      /\ FracLeq(hits_ltr[k1], hits_ltr[k2])
      /\ FracLeq(hits_rtl[k1], hits_rtl[k2])
      /\ FracLeq(hits[k1], hits[k2])

C3_Witness ==
  /\ Returned
  /\ \E k1, k2 \in Ks : k1 < k2 /\ FracGt(hits[k2], hits[k1])
                        /\ FracGt(hits_ltr[k2], hits_ltr[k1])

\* C4 as stated: when some true counterpart is no column of its matrix, the
\* call fails and returns nothing.
C4_AbsentCounterpartRaises ==
  (pc # "call" /\ ~ValidCols) => pc = "raised"

\* C5: with every counterpart a column of its matrix, the returned MRR and
\* each direction's mean are in (0,1], and a direction whose matrix has one
\* row per pair averages exactly N reciprocal ranks.
C5_MrrInUnitInterval ==
  (Returned /\ ValidCols) =>
    /\ FracGt(mrr, Zero) /\ FracLeq(mrr, One)
    /\ FracGt(mrr_ltr, Zero) /\ FracLeq(mrr_ltr, One)
    /\ FracGt(mrr_rtl, Zero) /\ FracLeq(mrr_rtl, One)
    /\ (Rows(distances1) = N => mrr_ltr.den = Fact(Cols(distances1)) * N)
    /\ (Rows(distances2) = N => mrr_rtl.den = Fact(Cols(distances2)) * N)

C5_Witness ==
  /\ Returned /\ ValidCols /\ RowPerPair /\ N = MaxN
  /\ FracGt(One, mrr) /\ FracGt(mrr_ltr, mrr_rtl)

\* C6 as stated: if a direction's HITS@1 fraction is 1.0 then that
\* direction's mean reciprocal rank is 1.0 and so is the returned MRR.
C6_PerfectHitsPerfectMrr ==
  (Returned /\ ValidCols /\ 1 \in Ks) =>
    /\ (FracEq(hits_ltr[1], One) => FracEq(mrr_ltr, One) /\ FracEq(mrr, One))
    /\ (FracEq(hits_rtl[1], One) => FracEq(mrr_rtl, One) /\ FracEq(mrr, One))

\* C7: the reported values are the larger of the two directions' values;
\* when every target is ranked last forward and every source first
\* backward, the reported values are the backward ones (all 1.0).
FwdAllLast ==
  Cols(distances1) >= 2 /\ \A i \in 1..N : ranks1[i][Cols(distances1)] = Tgt(i)
BwdAllFirst == \A i \in 1..N : ranks2[i][1] = Src(i)
C7_ReportsBetterDirection ==
  Returned =>
    /\ \A k \in Ks : /\ FracLeq(hits_ltr[k], hits[k])
                     /\ FracLeq(hits_rtl[k], hits[k])
                     /\ hits[k] \in {hits_ltr[k], hits_rtl[k]}
    /\ ValidCols => /\ FracLeq(mrr_ltr, mrr) /\ FracLeq(mrr_rtl, mrr)
                    /\ mrr \in {mrr_ltr, mrr_rtl}
    /\ (RowPerPair /\ FwdAllLast /\ BwdAllFirst) =>
         /\ \A k \in Ks : hits[k] = hits_rtl[k] /\ hits[k] = Frac(N, N)
         /\ FracEq(mrr, mrr_rtl) /\ FracEq(mrr, One)

C7_Witness ==
  /\ Returned /\ RowPerPair /\ N = MaxN
  /\ FwdAllLast /\ BwdAllFirst
  /\ FracGt(mrr_rtl, mrr_ltr)
  /\ \E k \in Ks : FracGt(hits_rtl[k], hits_ltr[k])

\* C8 as stated: on the scenario (2x3 forward matrix, 3x2 backward matrix,
\* two test pairs, cutoffs 1 and 2) the call completes with forward
\* fractions {1: 0.5, 2: 1.0}, hits[2] = 1.0 and hits[1] >= 0.5.
IsScenario ==
  /\ distances1 = ScenarioFwd /\ distances2 = ScenarioBwd
  /\ test_pairs = ScenarioPairs /\ hit_top_ks = ScenarioKs
ScenarioValues ==
  /\ FracEq(hits_ltr[1], Frac(1, 2)) /\ FracEq(hits_ltr[2], One)
  /\ FracEq(hits[2], One) /\ FracLeq(Frac(1, 2), hits[1])
  /\ \A k \in Ks : /\ FracLeq(hits_ltr[k], hits[k]) /\ FracLeq(hits_rtl[k], hits[k])
                   /\ hits[k] \in {hits_ltr[k], hits_rtl[k]}
C8_ScenarioCompletes ==
  (IsScenario /\ pc # "call") => (Returned /\ ScenarioValues)

\* C8 amended: the scenario's call raises and returns nothing, because the
\* backward matrix has 3 rows for 2 test pairs; with a backward matrix of 2
\* rows (one per pair) or of 1 row the call completes with the stated values.
C8_ScenarioRaises ==
  (distances1 = ScenarioFwd /\ test_pairs = ScenarioPairs
     /\ hit_top_ks = ScenarioKs /\ pc # "call") =>
    IF Rows(distances2) \in {1, N}
    THEN Returned /\ ScenarioValues
    ELSE pc = "raised" /\ hits = None /\ mrr = NaN

C8_Witness == IsScenario /\ pc = "raised"

\* C9 as stated: log_path returns run_{count}, count the number of numbered
\* run subdirectories, a path that does not exist yet; the parent exists
\* afterwards and the returned path is not created.
NumRunDirs == Cardinality({n \in 0..MaxRun : entries[<<"run", n>>] = "dir"})
C9_ReturnsNewPath ==
  ret # NoPath =>
    /\ parent
    /\ ret = <<"run", NumRunDirs>>
    /\ (ret \in Names => entries[ret] = "absent")

\* C10: with one row per pair in both matrices, every counterpart a column
\* of its matrix and 1 among the cutoffs, the returned MRR is at least the
\* returned HITS@1.
C10_MrrAtLeastHits1 ==
  (Returned /\ RowPerPair /\ ValidCols /\ 1 \in Ks) => FracLeq(hits[1], mrr)

C10_Witness ==
  /\ Returned /\ RowPerPair /\ ValidCols /\ 1 \in Ks /\ N = MaxN
  /\ FracGt(hits[1], Zero) /\ FracGt(mrr, hits[1])

====
